---- MODULE Spec2Model ----
(***************************************************************************)
(* IMAPMailbox (src/imapbox.py): a mailbox-shaped facade over one imaplib   *)
(* session.  The facade's own state is the session attribute self.__m and   *)
(* the folder name self.__folder; everything else lives on the server, so   *)
(* the model carries the server's folders and the protocol state of the     *)
(* session the facade holds.                                                *)
(*                                                                         *)
(* The facade calls IMAP4.search / fetch / store / copy, never IMAP4.uid:   *)
(* the identifiers it hands out are message sequence numbers, that is       *)
(* positions 1..n in the selected folder.  A message's own identity is the  *)
(* field id, which no facade call ever sees.                                *)
(***************************************************************************)
EXTENDS Integers, Sequences, FiniteSets, TLC

\* ------------------------------------------------------------- bounds
\* the number of messages the server ever stores
MaxMsgs == 2
\* the number of words of a search query
MaxWords == 2

\* ---------------------------------------------------------- constants
Folders == {"INBOX", "Sent"}
FolderNames == Folders \cup {"Nope"}
DefaultFolder == "INBOX"
\* message.as_bytes() of one message under a policy whose line separator is
\* LF (the default) or CRLF: len bytes, lines of them line endings of kind nl
Serialized == {[len |-> 10, lines |-> 2, nl |-> "LF"],
               [len |-> 12, lines |-> 2, nl |-> "CRLF"]}
Whats == {"RFC822", "RFC822.HEADER"}
Queries == {"ALL", "DELETED"}

VARIABLES
    m,       \* self.__m: the session's protocol state and selected folder
    folder,  \* self.__folder
    leaked,  \* a session the facade dropped was never logged out
    box,     \* the server: folder name -> sequence of messages
    nextId,  \* identity of the next message the server stores
    phase,   \* the facade's state: "Disconnected" or "Connected"
    msg,     \* the message handle an iteration gave the caller
    last,    \* the call that just returned to the caller, until the caller
             \* goes on: what it was and how it ended
    it,      \* the generator an iteration in progress has handed the caller
    macro    \* a search query and what __expand_search_macros made of it

vars == <<m, folder, leaked, box, nextId, phase, msg, last, it, macro>>

\* ------------------------------------------------------------ helpers
Range(s) == {s[i] : i \in 1..Len(s)}

RECURSIVE SetToSeq(_)
SetToSeq(S) ==
    IF S = {} THEN <<>>
    ELSE LET x == CHOOSE y \in S : \A z \in S : y <= z
         IN <<x>> \o SetToSeq(S \ {x})

\* the message sets a caller passes: ascending lists of identifiers
MsgSets == {SetToSeq(S) : S \in SUBSET (1..MaxMsgs)}

\* str(n) of a length, as its decimal digits
RECURSIVE Str(_)
Str(n) == IF n < 10 THEN <<n>> ELSE Str(n \div 10) \o <<n % 10>>

\* int(size) of a byte count read from a head line
RECURSIVE ToNat(_)
ToNat(digits) ==
    IF digits = <<>> THEN 0
    ELSE 10 * ToNat(SubSeq(digits, 1, Len(digits) - 1)) + digits[Len(digits)]

NoMsg == [uid |-> 0, what |-> "", body_loaded |-> FALSE, fetches |-> 0]

\* the generator of __iter__: st ("none", "open", "done"), uids (the
\* identifiers its search returned), ids (the messages those identifiers
\* designated at that time), got (the messages it has yielded), out (how it
\* ended), fault (the session refused a command, or the server answered a
\* command it could have carried out with a status other than OK)
NoIter == [st |-> "none", uids |-> <<>>, ids |-> <<>>, got |-> <<>>,
           out |-> "ok", fault |-> FALSE]

\* the record of a call: op and out (how it ended), nonOK (the server
\* answered one of its commands with a status other than OK), set (the
\* message set it was given), n (the number of items the caller received),
\* firstBad (the first pair of the response whose byte count is not the
\* length of its body, 0 when there is none), arg (what add was given: the
\* serialized message and the folder)
Mk(op, out, nonOK) ==
    [op |-> op, out |-> out, nonOK |-> nonOK, set |-> <<>>, n |-> 0,
     firstBad |-> 0, arg |-> <<>>]

\* the caller is between two calls
Idle == Mk("idle", "ok", FALSE)
Ready == last = Idle

\* ------------------------------------------------ the imaplib session
NoSession == [state |-> "UNDEFINED", sel |-> ""]

\* the states in which the session accepts a command; in any other state the
\* call raises before anything is sent
Allowed(cmd) ==
    CASE cmd = "LOGIN" -> {"NONAUTH"}
      [] cmd \in {"SELECT", "APPEND", "LIST"} -> {"AUTH", "SELECTED"}
      [] OTHER -> {"SELECTED"}

\* TRUE when the call on self.__m raises by itself: the attribute is
\* undefined, or the command is illegal in the session's state
Refused(cmd) == m.state \notin Allowed(cmd)

SelBox == box[m.sel]
Valid(set) == set # <<>> /\ \A k \in 1..Len(set) : set[k] \in 1..Len(SelBox)

\* What the session can answer.  "refused": the call raises by itself.
\* "BAD": the server rejects the command and imaplib raises.  "NO": the
\* server declines and imaplib returns the status.  "OK": done.
PlainAnswers(cmd) == IF Refused(cmd) THEN {"refused"} ELSE {"OK", "NO"}

FolderAnswers(cmd, f) ==
    IF Refused(cmd) THEN {"refused"}
    ELSE IF f \in Folders THEN {"OK", "NO"} ELSE {"NO"}

SetAnswers(cmd, set) ==
    IF Refused(cmd) THEN {"refused"}
    ELSE IF Valid(set) THEN {"OK", "NO"} ELSE {"NO", "BAD"}

Raises(a) == a \in {"refused", "BAD"}

\* SELECT: a failed select leaves no folder selected
ServerSelect(f, a) ==
    IF a = "OK" THEN [state |-> "SELECTED", sel |-> f]
    ELSE [state |-> "AUTH", sel |-> ""]

\* a store that also drops what it flags
StoreAndExpunge(msgs, set) ==
    SelectSeq([i \in 1..Len(msgs) |->
                  IF i \in Range(set) THEN [msgs[i] EXCEPT !.del = TRUE]
                  ELSE msgs[i]],
              LAMBDA x : ~x.del)

\* STORE +FLAGS \Deleted on the messages at the positions of set
StoreDeleted(msgs, set) ==
    [i \in 1..Len(msgs) |->
        IF i \in Range(set) THEN [msgs[i] EXCEPT !.del = TRUE] ELSE msgs[i]]

\* EXPUNGE: every message flagged \Deleted goes, the rest close ranks
Expunge(msgs) == SelectSeq(msgs, LAMBDA x : ~x.del)

\* CLOSE: back to the authenticated state, no folder selected
Close(rec) == [state |-> "AUTH", sel |-> ""]

\* a logout that is never sent
LogoutSkipped(rec) == rec

\* LOGOUT
Logout(rec) == [state |-> "LOGOUT", sel |-> ""]

\* SEARCH: the positions of the matching messages, ascending
Search(query) ==
    SetToSeq({i \in 1..Len(SelBox) : query = "ALL" \/ SelBox[i].del})

\* what keys() returns in the current state
KeysNow == Search("ALL")

\* ------------------------------------------------------------- fetch
BodyLen(mrec, what) == IF what = "RFC822" THEN mrec.len ELSE mrec.len \div 2

\* the (head, body) pairs of a FETCH response; the positions in bad carry a
\* byte count that is not the length of the body that follows
FetchResponse(set, what, bad) ==
    [k \in 1..Len(set) |->
        LET mrec == SelBox[set[k]]
            blen == BodyLen(mrec, what)
        IN [uid |-> set[k], what |-> what,
            size |-> IF k \in bad THEN Str(blen + 1) ELSE Str(blen),
            id |-> mrec.id, len |-> blen]]

\* a fetch that never compares the sizes
SizeCheckSkipped(pair) == FALSE

\* fetch's test on one pair: size != str(len(body))
SizeMismatch(pair) == pair.size # Str(pair.len)

\* the number of pairs the generator yields before it ends or raises
RECURSIVE Yielded(_, _)
Yielded(resp, k) ==
    IF k > Len(resp) THEN Len(resp)
    ELSE IF SizeMismatch(resp[k]) THEN k - 1
    ELSE Yielded(resp, k + 1)

\* the first pair of a response whose declared byte count is not the length
\* of the body received with it, 0 when every pair is sound
RECURSIVE FirstBad(_, _)
FirstBad(resp, k) ==
    IF k > Len(resp) THEN 0
    ELSE IF ToNat(resp[k].size) # resp[k].len THEN k
    ELSE FirstBad(resp, k + 1)

\* handle_response: anything but OK raises
handle_response(a) == IF a = "OK" THEN "ok" ELSE "raised"

\* IMAPMailbox.fetch, consumed by the caller until it ends or raises: n is
\* the number of (uid, body) pairs the caller received
FetchResult(set, what, a, bad) ==
    IF a # "OK"
    THEN [Mk("fetch", "raised", a = "NO") EXCEPT !.set = set]
    ELSE LET resp == FetchResponse(set, what, bad)
             n == Yielded(resp, 1)
         IN [Mk("fetch", IF n < Len(resp) THEN "raised" ELSE "ok", FALSE)
                EXCEPT !.set = set, !.n = n, !.firstBad = FirstBad(resp, 1)]

\* -------------------------------------------------- search macros
\* A string is the sequence of its characters.  Chars(w) spells out the
\* literals of __expand_search_macros and of the queries.
Chars(w) ==
    CASE w = "FIND" -> <<"F", "I", "N", "D">>
      [] w = "TEXT" -> <<"T", "E", "X", "T">>
      [] w = "TODAY" -> <<"T", "O", "D", "A", "Y">>
      [] w = "YESTERDAY" -> <<"Y", "E", "S", "T", "E", "R", "D", "A", "Y">>
      [] w = "THISWEEK" -> <<"T", "H", "I", "S", "W", "E", "E", "K">>
      [] w = "THISMONTH" -> <<"T", "H", "I", "S", "M", "O", "N", "T", "H">>
      [] w = "THISYEAR" -> <<"T", "H", "I", "S", "Y", "E", "A", "R">>
      [] w = "LASTWEEK" -> <<"L", "A", "S", "T", "W", "E", "E", "K">>
      [] w = "LASTMONTH" -> <<"L", "A", "S", "T", "M", "O", "N", "T", "H">>
      [] w = "LASTYEAR" -> <<"L", "A", "S", "T", "Y", "E", "A", "R">>
      [] w = "PAST3DAYS" -> <<"P", "A", "S", "T", "3", "D", "A", "Y", "S">>
      [] w = "PAST7DAYS" -> <<"P", "A", "S", "T", "7", "D", "A", "Y", "S">>
      [] w = "PAST14DAYS" -> <<"P", "A", "S", "T", "1", "4", "D", "A", "Y", "S">>
      [] w = "PAST30DAYS" -> <<"P", "A", "S", "T", "3", "0", "D", "A", "Y", "S">>
      [] w = "PAST60DAYS" -> <<"P", "A", "S", "T", "6", "0", "D", "A", "Y", "S">>
      [] w = "PAST90DAYS" -> <<"P", "A", "S", "T", "9", "0", "D", "A", "Y", "S">>
      [] w = "PASTHALFYEAR" -> <<"P", "A", "S", "T", "H", "A", "L", "F", "Y", "E", "A", "R">>
      [] w = "PAST180DAYS" -> <<"P", "A", "S", "T", "1", "8", "0", "D", "A", "Y", "S">>
      [] w = "PASTYEAR" -> <<"P", "A", "S", "T", "Y", "E", "A", "R">>
      [] w = "PAST365DAYS" -> <<"P", "A", "S", "T", "3", "6", "5", "D", "A", "Y", "S">>
      [] w = "PAST2YEARS" -> <<"P", "A", "S", "T", "2", "Y", "E", "A", "R", "S">>
      [] w = "PAST730DAYS" -> <<"P", "A", "S", "T", "7", "3", "0", "D", "A", "Y", "S">>
      [] w = "NOT" -> <<"N", "O", "T">>
      [] w = "ON " -> <<"O", "N", " ">>
      [] w = "SINCE " -> <<"S", "I", "N", "C", "E", " ">>
      [] w = "(SINCE " -> <<"(", "S", "I", "N", "C", "E", " ">>
      [] w = " BEFORE " -> <<" ", "B", "E", "F", "O", "R", "E", " ">>
      [] w = ")" -> <<")">>
      [] w = " " -> <<" ">>
      [] w = "-" -> <<"-">>

\* str.replace(old, new): every occurrence of old, found from the left and
\* not overlapping, becomes new
RECURSIVE Replace(_, _, _)
Replace(s, old, new) ==
    IF Len(s) < Len(old) THEN s
    ELSE IF SubSeq(s, 1, Len(old)) = old
         THEN new \o Replace(SubSeq(s, Len(old) + 1, Len(s)), old, new)
         ELSE <<s[1]>> \o Replace(Tail(s), old, new)

\* the words of a query joined by single spaces
RECURSIVE Join(_)
Join(words) ==
    IF words = <<>> THEN <<>>
    ELSE IF Len(words) = 1 THEN Chars(words[1])
    ELSE Chars(words[1]) \o Chars(" ") \o Join(Tail(words))

\* datetime.date: the proleptic Gregorian calendar
IsLeap(y) == y % 4 = 0 /\ (y % 100 # 0 \/ y % 400 = 0)

DaysInMonth(y, mo) ==
    IF mo = 2 THEN (IF IsLeap(y) THEN 29 ELSE 28)
    ELSE IF mo \in {4, 6, 9, 11} THEN 30 ELSE 31

RECURSIVE DaysBeforeMonth(_, _)
DaysBeforeMonth(y, mo) ==
    IF mo = 1 THEN 0 ELSE DaysBeforeMonth(y, mo - 1) + DaysInMonth(y, mo - 1)

DaysBeforeYear(y) ==
    (y - 1) * 365 + (y - 1) \div 4 - (y - 1) \div 100 + (y - 1) \div 400

\* datetime.date(y, mo, d)
date(y, mo, d) == [y |-> y, mo |-> mo, d |-> d]

\* date.toordinal(): 1 for 1 January of year 1
toordinal(dt) == DaysBeforeYear(dt.y) + DaysBeforeMonth(dt.y, dt.mo) + dt.d

\* date.fromordinal(n)
fromordinal(n) ==
    LET n0 == n - 1
        n400 == n0 \div 146097
        r400 == n0 % 146097
        n100 == r400 \div 36524
        r100 == r400 % 36524
        n4 == r100 \div 1461
        r4 == r100 % 1461
        n1 == r4 \div 365
        r1 == r4 % 365
        y == n400 * 400 + 1 + n100 * 100 + n4 * 4 + n1
    IN IF n1 = 4 \/ n100 = 4 THEN date(y - 1, 12, 31)
       ELSE LET mo == CHOOSE k \in 1..12 :
                         /\ DaysBeforeMonth(y, k) <= r1
                         /\ r1 < DaysBeforeMonth(y, k) + DaysInMonth(y, k)
            IN date(y, mo, r1 - DaysBeforeMonth(y, mo) + 1)

\* date - datetime.timedelta(days=k)
MinusDays(dt, k) == fromordinal(toordinal(dt) - k)

\* a week that starts on Sunday
WeekdayFromSunday(dt) == toordinal(dt) % 7

\* date.weekday(): Monday is 0, Sunday is 6
weekday(dt) == (toordinal(dt) + 6) % 7

DigitChars == <<"0", "1", "2", "3", "4", "5", "6", "7", "8", "9">>

\* the decimal digits of n as characters, at least width of them
RECURSIVE Digits(_, _)
Digits(n, width) ==
    IF n < 10 /\ width <= 1 THEN <<DigitChars[n + 1]>>
    ELSE Digits(n \div 10, width - 1) \o <<DigitChars[(n % 10) + 1]>>

\* %b
MonthAbbr ==
    <<<<"J", "a", "n">>,
      <<"F", "e", "b">>,
      <<"M", "a", "r">>,
      <<"A", "p", "r">>,
      <<"M", "a", "y">>,
      <<"J", "u", "n">>,
      <<"J", "u", "l">>,
      <<"A", "u", "g">>,
      <<"S", "e", "p">>,
      <<"O", "c", "t">>,
      <<"N", "o", "v">>,
      <<"D", "e", "c">>>>

\* "{:%d-%b-%Y}".format(dt)
FormatDate(dt) ==
    Digits(dt.d, 2) \o Chars("-") \o MonthAbbr[dt.mo] \o Chars("-")
        \o Digits(dt.y, 4)

\* imap_time_range
imap_time_range(start, end) ==
    Chars("(SINCE ") \o FormatDate(start) \o Chars(" BEFORE ")
        \o FormatDate(end) \o Chars(")")

On(dt) == Chars("ON ") \o FormatDate(dt)
Since(dt) == Chars("SINCE ") \o FormatDate(dt)

\* the dates __expand_search_macros computes from today
week_start(today) == MinusDays(today, weekday(today))
last_week_start(today) == MinusDays(week_start(today), 7)
month_start(today) == date(today.y, today.mo, 1)
year_start(today) == date(today.y, 1, 1)
last_month_start(today) ==
    IF today.mo = 1 THEN date(today.y - 1, 12, 1)
    ELSE date(today.y, today.mo - 1, 1)
last_year_start(today) == date(today.y - 1, 1, 1)

\* an alias that is left as it is
AliasKept(q, alias, target) == q

\* q.replace(alias, target): an alias becomes the macro it stands for
AliasToTarget(q, alias, target) == Replace(q, Chars(alias), Chars(target))

\* IMAPMailbox.__expand_search_macros: the replacements in the order the
\* code makes them
expand_search_macros(query, today) ==
    LET q01 == Replace(query, Chars("FIND"), Chars("TEXT"))
        q02 == Replace(q01, Chars("TODAY"), On(today))
        q03 == Replace(q02, Chars("YESTERDAY"), On(MinusDays(today, 1)))
        q04 == Replace(q03, Chars("THISWEEK"), Since(week_start(today)))
        q05 == Replace(q04, Chars("THISMONTH"), Since(month_start(today)))
        q06 == Replace(q05, Chars("THISYEAR"), Since(year_start(today)))
        q07 == Replace(q06, Chars("LASTWEEK"),
                       imap_time_range(last_week_start(today), week_start(today)))
        q08 == Replace(q07, Chars("LASTMONTH"),
                       imap_time_range(last_month_start(today), month_start(today)))
        q09 == Replace(q08, Chars("LASTYEAR"),
                       imap_time_range(last_year_start(today), year_start(today)))
        q10 == Replace(q09, Chars("PAST3DAYS"), Since(MinusDays(today, 3)))
        q11 == Replace(q10, Chars("PAST7DAYS"), Since(MinusDays(today, 7)))
        q12 == Replace(q11, Chars("PAST14DAYS"), Since(MinusDays(today, 14)))
        q13 == Replace(q12, Chars("PAST30DAYS"), Since(MinusDays(today, 30)))
        q14 == Replace(q13, Chars("PAST60DAYS"), Since(MinusDays(today, 60)))
        q15 == Replace(q14, Chars("PAST90DAYS"), Since(MinusDays(today, 90)))
        q16 == AliasToTarget(q15, "PASTHALFYEAR", "PAST180DAYS")
        q17 == Replace(q16, Chars("PAST180DAYS"), Since(MinusDays(today, 180)))
        q18 == AliasToTarget(q17, "PASTYEAR", "PAST365DAYS")
        q19 == Replace(q18, Chars("PAST365DAYS"), Since(MinusDays(today, 365)))
        q20 == AliasToTarget(q19, "PAST2YEARS", "PAST730DAYS")
        q21 == Replace(q20, Chars("PAST730DAYS"), Since(MinusDays(today, 730)))
    IN q21

\* the reference dates: every day of two years, one of them a leap year
Years == {2023, 2024}
Dates ==
    {dt \in {date(y, mo, d) : y \in Years, mo \in 1..12, d \in 1..31} :
        dt.d <= DaysInMonth(dt.y, dt.mo)}

\* the macros that expand to a range
RangeMacros == {"LASTWEEK", "LASTMONTH", "LASTYEAR"}

\* the words of the queries: the aliases, their targets, and words around them
QueryWords == {"PASTHALFYEAR", "PAST180DAYS", "PASTYEAR", "PAST365DAYS",
               "PAST2YEARS", "PAST730DAYS", "NOT", "LASTYEAR"}

\* the queries a caller passes to search: up to MaxWords words
MacroQueries == UNION {[1..n -> QueryWords] : n \in 1..MaxWords}

\* the reference dates the longer queries are expanded on
AliasDates == {dt \in Dates : dt.d = 1 /\ dt.mo \in {1, 7}}

\* no query has been expanded
NoMacro == [today |-> date(1, 1, 1), query |-> <<>>, expanded |-> <<>>,
            done |-> FALSE]

\* --------------------------------------------------------------- Init
\* IMAPMailbox.__init__: no session yet, the folder as given (INBOX by
\* default); the server holds one message in INBOX
Init ==
    /\ m = NoSession
    /\ folder = DefaultFolder
    /\ leaked = FALSE
    /\ box = [f \in Folders |->
                IF f = "INBOX"
                THEN <<[id |-> 1, del |-> FALSE, len |-> 7, lines |-> 1,
                        nl |-> "CRLF"]>>
                ELSE <<>>]
    /\ nextId = 2
    /\ phase = "Disconnected"
    /\ msg = NoMsg
    /\ last = Idle
    /\ it = NoIter
    /\ macro = NoMacro

\* ------------------------------------------------- connection lifecycle
\* IMAPMailbox.select: the folder name is stored first, then the server is
\* asked, and the answer is not looked at
select(f, a) ==
    /\ a \in FolderAnswers("SELECT", f)
    /\ folder' = f
    /\ m' = IF Raises(a) THEN m ELSE ServerSelect(f, a)
    /\ last' = Mk("select", IF Raises(a) THEN "raised" ELSE "ok", a = "NO")
    /\ UNCHANGED <<leaked, box, nextId, phase, msg, it, macro>>

\* the ways a connect can go, by what the session answers
ConnectPaths == {"open raises", "login NO", "select NO", "select OK"}

\* IMAPMailbox.connect (and __enter__): open a session, log in, select
\* self.__folder.  The constructor and login raise when they fail; select
\* does not.  The session self.__m held before is dropped as it is.
connect(path) ==
    /\ phase = "Disconnected"
    /\ path = "select OK" => folder \in Folders
    /\ IF path = "open raises"
       THEN /\ last' = Mk("connect", "raised", FALSE)
            /\ UNCHANGED <<m, leaked, phase>>
       ELSE /\ leaked' = (leaked \/ m.state \notin {"UNDEFINED", "LOGOUT"})
            /\ IF path = "login NO"
               THEN /\ m' = [state |-> "NONAUTH", sel |-> ""]
                    /\ last' = Mk("connect", "raised", TRUE)
                    /\ UNCHANGED phase
               ELSE /\ m' = ServerSelect(folder, IF path = "select OK"
                                                 THEN "OK" ELSE "NO")
                    /\ last' = Mk("connect", "ok", path # "select OK")
                    /\ phase' = "Connected"
    /\ UNCHANGED <<folder, box, nextId, msg, it, macro>>

\* IMAPMailbox.disconnect (and __exit__): close, then logout.  CLOSE expunges
\* the selected folder; when close raises, logout is never reached.
disconnect ==
    /\ IF Refused("CLOSE")
       THEN /\ last' = Mk("disconnect", "raised", FALSE)
            /\ UNCHANGED <<m, box, phase>>
       ELSE /\ box' = [box EXCEPT ![m.sel] = Expunge(@)]
            /\ m' = Logout(Close(m))
            /\ phase' = "Disconnected"
            /\ last' = Mk("disconnect", "ok", FALSE)
    /\ UNCHANGED <<folder, leaked, nextId, msg, it, macro>>

\* ------------------------------------------------------ reading calls
\* IMAPMailbox.keys
keys(a) ==
    /\ a \in PlainAnswers("SEARCH")
    /\ last' = [Mk("keys", handle_response(a), a = "NO")
                   EXCEPT !.n = IF a = "OK" THEN Len(KeysNow) ELSE 0]
    /\ UNCHANGED <<m, folder, leaked, box, nextId, phase, msg, it, macro>>

\* IMAPMailbox.search
search(query, a) ==
    /\ a \in PlainAnswers("SEARCH")
    /\ last' = [Mk("search", handle_response(a), a = "NO")
                   EXCEPT !.n = IF a = "OK" THEN Len(Search(query)) ELSE 0]
    /\ UNCHANGED <<m, folder, leaked, box, nextId, phase, msg, it, macro>>

\* IMAPMailbox.list_folders, consumed by the caller
list_folders(a) ==
    /\ a \in PlainAnswers("LIST")
    /\ last' = [Mk("list_folders", handle_response(a), a = "NO")
                   EXCEPT !.n = IF a = "OK" THEN Cardinality(Folders) ELSE 0]
    /\ UNCHANGED <<m, folder, leaked, box, nextId, phase, msg, it, macro>>

\* IMAPMailbox.fetch
fetch(set, what, a, bad) ==
    /\ a \in SetAnswers("FETCH", set)
    /\ bad # {} => a = "OK"
    /\ last' = FetchResult(set, what, a, bad)
    /\ UNCHANGED <<m, folder, leaked, box, nextId, phase, msg, it, macro>>

\* IMAPMailbox.items, consumed by the caller: keys(), then one fetch of all
\* of them
items(a, af, bad) ==
    /\ a \in PlainAnswers("SEARCH")
    /\ IF a # "OK"
       THEN /\ af = "none" /\ bad = {}
            /\ last' = Mk("items", "raised", a = "NO")
       ELSE /\ af \in SetAnswers("FETCH", KeysNow)
            /\ bad # {} => af = "OK"
            /\ bad \subseteq 1..Len(KeysNow)
            /\ last' = [FetchResult(KeysNow, "RFC822", af, bad)
                           EXCEPT !.op = "items"]
    /\ UNCHANGED <<m, folder, leaked, box, nextId, phase, msg, it, macro>>

\* ----------------------------------------------------- writing calls
\* the literal IMAP4.append sends: every line ending becomes CRLF
MapCRLF(b) ==
    [len |-> IF b.nl = "CRLF" THEN b.len ELSE b.len + b.lines,
     lines |-> b.lines, nl |-> "CRLF"]

\* the message the server stores for a literal
Stored(id, b) ==
    [id |-> id, del |-> FALSE, len |-> b.len, lines |-> b.lines, nl |-> b.nl]

\* the text of a stored message, as a fetch of RFC822 returns it
Body(mrec) == [len |-> mrec.len, lines |-> mrec.lines, nl |-> mrec.nl]

\* IMAPMailbox.add: APPEND of message.as_bytes(), the answer is not looked at
add(b, f, a) ==
    /\ a \in FolderAnswers("APPEND", f)
    /\ a = "OK" => nextId <= MaxMsgs
    /\ IF a = "OK"
       THEN /\ box' = [box EXCEPT ![f] = Append(@, Stored(nextId, MapCRLF(b)))]
            /\ nextId' = nextId + 1
       ELSE UNCHANGED <<box, nextId>>
    /\ last' = [Mk("add", IF Raises(a) THEN "raised" ELSE "ok", a = "NO")
                   EXCEPT !.arg = <<b, f>>]
    /\ UNCHANGED <<m, folder, leaked, phase, msg, it, macro>>

\* the copies COPY appends to the target folder
Copies(set) ==
    [k \in 1..Len(set) |-> [SelBox[set[k]] EXCEPT !.id = nextId + k - 1]]

CopyAnswers(set, f) ==
    IF Refused("COPY") THEN {"refused"}
    ELSE IF ~Valid(set) THEN {"NO", "BAD"}
    ELSE IF f \in Folders THEN {"OK", "NO"} ELSE {"NO"}

\* IMAPMailbox.copy: COPY, the answer is not looked at
copy(set, f, a) ==
    /\ a \in CopyAnswers(set, f)
    /\ a = "OK" => nextId + Len(set) - 1 <= MaxMsgs
    /\ IF a = "OK"
       THEN /\ box' = [box EXCEPT ![f] = @ \o Copies(set)]
            /\ nextId' = nextId + Len(set)
       ELSE UNCHANGED <<box, nextId>>
    /\ last' = [Mk("copy", IF Raises(a) THEN "raised" ELSE "ok", a = "NO")
                   EXCEPT !.set = set]
    /\ UNCHANGED <<m, folder, leaked, phase, msg, it, macro>>

\* IMAPMailbox.discard: STORE +FLAGS \Deleted, the answer is not looked at
discard(set, a) ==
    /\ a \in SetAnswers("STORE", set)
    /\ box' = IF a = "OK"
              THEN [box EXCEPT ![m.sel] = StoreDeleted(@, set)]
              ELSE box
    /\ last' = [Mk("discard", IF Raises(a) THEN "raised" ELSE "ok", a = "NO")
                   EXCEPT !.set = set]
    /\ UNCHANGED <<m, folder, leaked, nextId, phase, msg, it, macro>>

\* IMAPMailbox.remove: discard, then EXPUNGE, the answer is not looked at
remove(set, a, ax) ==
    /\ a \in SetAnswers("STORE", set)
    /\ ax \in IF Raises(a) THEN {"none"} ELSE {"OK", "NO"}
    /\ LET stored == IF a = "OK" THEN StoreDeleted(SelBox, set) ELSE SelBox
       IN box' = IF Raises(a) THEN box
                 ELSE [box EXCEPT ![m.sel] =
                          IF ax = "OK" THEN Expunge(stored) ELSE stored]
    /\ last' = [Mk("remove", IF Raises(a) THEN "raised" ELSE "ok",
                   a = "NO" \/ ax = "NO")
                   EXCEPT !.set = set]
    /\ UNCHANGED <<m, folder, leaked, nextId, phase, msg, it, macro>>

\* an item deletion that does what discard does
DelitemDiscards(key) ==
    /\ ~Refused("STORE") /\ Valid(<<key>>)
    /\ box' = [box EXCEPT ![m.sel] = StoreDeleted(@, <<key>>)]
    /\ last' = [Mk("delitem", "ok", FALSE) EXCEPT !.set = <<key>>]
    /\ UNCHANGED <<m, folder, leaked, nextId, phase, msg, it, macro>>

\* IMAPMailbox.__delitem__: raises at once, nothing is asked of the session
delitem(key) ==
    /\ last' = [Mk("delitem", "raised", FALSE) EXCEPT !.set = <<key>>]
    /\ UNCHANGED <<m, folder, leaked, box, nextId, phase, msg, it, macro>>

\* the exception a call ended with: NotImplementedError from __delitem__,
\* Exception from handle_response or from fetch's size test, and otherwise
\* what the session itself raised (imaplib's error, or AttributeError when
\* self.__m was never set)
Exc(rec) ==
    IF rec.out # "raised" THEN "none"
    ELSE IF rec.op = "delitem" THEN "NotImplementedError"
    ELSE IF rec.op # "connect" /\ (rec.nonOK \/ rec.firstBad # 0) THEN "Exception"
    ELSE "SessionError"

\* ---------------------------------------------- iteration and messages
\* IMAPMessage.from_uid: the full message
IMAPMessage_from_uid(uid, a) ==
    [r |-> FetchResult(<<uid>>, "RFC822", a, {}), what |-> "RFC822"]

\* a headers-only class that fetches as its parent does
HeadersOnlyFetchesAll(uid, a) == IMAPMessage_from_uid(uid, a)

\* IMAPMessageHeadersOnly.from_uid: the headers alone
IMAPMessageHeadersOnly_from_uid(uid, a) ==
    [r |-> FetchResult(<<uid>>, "RFC822.HEADER", a, {}),
     what |-> "RFC822.HEADER"]

\* the handle built from the pair a fetch yielded
Handle(uid, what) ==
    [uid |-> uid, what |-> what, body_loaded |-> FALSE, fetches |-> 0]

\* IMAPMailbox.__iter__ (and values), consumed by the caller: one search,
\* then one headers-only fetch per identifier.  msg is the first message the
\* caller received.
iter(a, af) ==
    /\ a \in PlainAnswers("SEARCH")
    /\ IF a # "OK" \/ KeysNow = <<>>
       THEN /\ af = "none"
            /\ last' = Mk("iter", handle_response(a), a = "NO")
            /\ UNCHANGED msg
       ELSE /\ af \in {"OK", "NO"}
            /\ LET f == IMAPMessageHeadersOnly_from_uid(KeysNow[1], af)
               IN /\ last' = [Mk("iter", f.r.out, f.r.nonOK) EXCEPT
                                 !.n = IF f.r.out = "ok" THEN Len(KeysNow) ELSE 0]
                  /\ msg' = IF f.r.out = "ok" THEN Handle(KeysNow[1], f.what)
                            ELSE msg
    /\ UNCHANGED <<m, folder, leaked, box, nextId, phase, it, macro>>

\* the handle after an access to its payload that fetched with result r
BodyLoaded(h, r) ==
    IF r.out = "ok"
    THEN [h EXCEPT !.body_loaded = TRUE, !.fetches = @ + 1]
    ELSE h

\* get_payload / walk / as_string on the handle: the first access fetches
\* the full message and keeps it
get_payload(a) ==
    /\ msg # NoMsg
    /\ IF msg.body_loaded
       THEN /\ a = "none"
            /\ last' = Mk("get_payload", "ok", FALSE)
            /\ UNCHANGED msg
       ELSE /\ a \in SetAnswers("FETCH", <<msg.uid>>)
            /\ LET f == IMAPMessage_from_uid(msg.uid, a)
               IN /\ last' = Mk("get_payload", f.r.out, f.r.nonOK)
                  /\ msg' = BodyLoaded(msg, f.r)
    /\ UNCHANGED <<m, folder, leaked, box, nextId, phase, it, macro>>

\* one step of the generator's loop: the headers of the next identifier of
\* its list are fetched and yielded; after the last one the generator ends
IterStep(g, af) ==
    LET uid == g.uids[Len(g.got) + 1]
        f == IMAPMessageHeadersOnly_from_uid(uid, af)
    IN IF f.r.out = "ok"
       THEN LET got == Append(g.got, SelBox[uid].id)
            IN [g EXCEPT !.got = got,
                         !.st = IF Len(got) = Len(g.uids) THEN "done" ELSE "open"]
       ELSE [g EXCEPT !.st = "done", !.out = "raised",
                      !.fault = \/ af = "refused"
                                \/ af = "NO" /\ Valid(<<uid>>)]

\* IMAPMailbox.__iter__ up to its first yield: the search, then the fetch of
\* the first identifier
iter_begin(a, af) ==
    /\ a \in PlainAnswers("SEARCH")
    /\ IF a # "OK"
       THEN /\ af = "none"
            /\ it' = [NoIter EXCEPT !.st = "done", !.out = "raised",
                                    !.fault = TRUE]
       ELSE LET g == [NoIter EXCEPT !.st = "open", !.uids = KeysNow,
                         !.ids = [i \in 1..Len(SelBox) |-> SelBox[i].id]]
            IN IF KeysNow = <<>>
               THEN /\ af = "none"
                    /\ it' = [g EXCEPT !.st = "done"]
               ELSE /\ af \in SetAnswers("FETCH", <<KeysNow[1]>>)
                    /\ it' = IterStep(g, af)
    /\ UNCHANGED <<m, folder, leaked, box, nextId, phase, msg, last, macro>>

\* the caller's next() on a generator that has yielded: the loop goes on
\* with the list the search returned when the iteration began
iter_next(af) ==
    /\ it.st = "open"
    /\ af \in SetAnswers("FETCH", <<it.uids[Len(it.got) + 1]>>)
    /\ it' = IterStep(it, af)
    /\ UNCHANGED <<m, folder, leaked, box, nextId, phase, msg, last, macro>>

\* the caller has looked at what the call gave it and goes on
proceed ==
    /\ ~Ready
    /\ last' = Idle
    /\ UNCHANGED <<m, folder, leaked, box, nextId, phase, msg, it, macro>>

\* ------------------------------------------------------ specification
AllAnswers == {"OK", "NO", "BAD", "refused", "none"}

\* one call at a time: a call starts when the caller is Ready
Next ==
    \/ Ready /\ \E path \in ConnectPaths : connect(path)
    \/ Ready /\ disconnect
    \/ Ready /\ \E f \in FolderNames :
          \E a \in FolderAnswers("SELECT", f) : select(f, a)
    \/ Ready /\ \E a \in PlainAnswers("SEARCH") : keys(a)
    \/ Ready /\ \E q \in Queries, a \in PlainAnswers("SEARCH") : search(q, a)
    \/ Ready /\ \E a \in PlainAnswers("LIST") : list_folders(a)
    \/ Ready /\ \E set \in MsgSets, w \in Whats :
          \E a \in SetAnswers("FETCH", set), bad \in SUBSET (1..Len(set)) :
             fetch(set, w, a, bad)
    \/ Ready /\ \E a \in PlainAnswers("SEARCH"), af \in AllAnswers :
          \E bad \in SUBSET (1..MaxMsgs) : items(a, af, bad)
    \/ Ready /\ \E b \in Serialized, f \in FolderNames :
          \E a \in FolderAnswers("APPEND", f) : add(b, f, a)
    \/ Ready /\ \E set \in MsgSets, f \in FolderNames :
          \E a \in CopyAnswers(set, f) : copy(set, f, a)
    \/ Ready /\ \E set \in MsgSets :
          \E a \in SetAnswers("STORE", set) : discard(set, a)
    \/ Ready /\ \E set \in MsgSets :
          \E a \in SetAnswers("STORE", set), ax \in AllAnswers :
             remove(set, a, ax)
    \/ Ready /\ \E a \in PlainAnswers("SEARCH"), af \in AllAnswers : iter(a, af)
    \/ Ready /\ \E a \in AllAnswers : get_payload(a)
    \/ Ready /\ \E key \in 1..MaxMsgs : delitem(key)
    \/ proceed

Spec == Init /\ [][Next]_vars

\* an iteration consumed step by step, with writes between its steps
NextIter ==
    \/ connect("select OK")
    \/ \E b \in Serialized : add(b, DefaultFolder, "OK")
    \/ \E set \in MsgSets : \E a \in SetAnswers("STORE", set) : discard(set, a)
    \/ \E set \in MsgSets :
          \E a \in SetAnswers("STORE", set), ax \in AllAnswers :
             remove(set, a, ax)
    \/ \E a \in PlainAnswers("SEARCH"), af \in AllAnswers : iter_begin(a, af)
    \/ \E af \in AllAnswers : iter_next(af)

SpecIter == Init /\ [][NextIter]_vars

\* search's call of __expand_search_macros on its query, today being the
\* reference date
expand ==
    /\ ~macro.done
    /\ macro.query # <<>>
    /\ macro' = [macro EXCEPT
                    !.expanded = expand_search_macros(Join(macro.query), macro.today),
                    !.done = TRUE]
    /\ UNCHANGED <<m, folder, leaked, box, nextId, phase, msg, last, it>>

\* a query and a reference date: each range macro on every date, and every
\* query on a few dates
InitMacros ==
    /\ m = NoSession
    /\ folder = DefaultFolder
    /\ leaked = FALSE
    /\ box = [f \in Folders |-> <<>>]
    /\ nextId = 1
    /\ phase = "Disconnected"
    /\ msg = NoMsg
    /\ last = Idle
    /\ it = NoIter
    /\ \E t \in Dates, q \in MacroQueries \cup {<<w>> : w \in RangeMacros} :
          /\ t \in AliasDates \/ (Len(q) = 1 /\ q[1] \in RangeMacros)
          /\ macro = [today |-> t, query |-> q, expanded |-> <<>>, done |-> FALSE]

NextMacros == expand

SpecMacros == InitMacros /\ [][NextMacros]_vars

\* =============================================================== claims
DataOps == {"keys", "iter", "items", "fetch", "search", "add", "copy",
            "discard", "remove", "list_folders"}

\* C1: when remove(u) of one identifier u has completed with every server
\* command answered OK, u is no longer among the identifiers keys() returns.
C1_RemovedLeavesKeys ==
    (last.op = "remove" /\ last.out = "ok" /\ ~last.nonOK /\ Len(last.set) = 1)
        => last.set[1] \notin Range(KeysNow)

\* C2 as stated: an identifier whose message carries the deleted flag stays
\* among the identifiers of its folder across every call that is not remove.
C2_FlaggedStaysUntilRemove ==
    [][last'.op # "remove" =>
          \A f \in Folders : \A i \in 1..Len(box[f]) :
              box[f][i].del => i \in 1..Len(box'[f])]_vars

\* C2 as amended: discard changes nothing but the deleted flag of the
\* messages it names, so keys() is the same before and after it; and a
\* flagged message stays where it is, as it is, across every call that is
\* neither remove nor disconnect.
C2_DiscardOnlyFlags ==
    [][/\ last'.op = "discard" =>
              \A f \in Folders :
                 /\ Len(box'[f]) = Len(box[f])
                 /\ \A i \in 1..Len(box[f]) :
                       \/ box'[f][i] = box[f][i]
                       \/ /\ f = m.sel
                          /\ i \in Range(last'.set)
                          /\ box'[f][i] = [box[f][i] EXCEPT !.del = TRUE]
       /\ last'.op \notin {"remove", "disconnect"} =>
              \A f \in Folders : \A i \in 1..Len(box[f]) :
                  box[f][i].del =>
                      /\ i \in 1..Len(box'[f])
                      /\ box'[f][i] = box[f][i]]_vars

\* keys() has returned both identifiers of a folder whose first message was
\* flagged by an earlier discard
C2_Witness ==
    /\ last.op = "keys" /\ last.out = "ok" /\ last.n = 2
    /\ SelBox[1].del

\* C3: while the facade is Disconnected (no connect() has returned yet, or a
\* disconnect() has returned), each of keys, iteration, items, fetch,
\* search, add, copy, discard, remove and list_folders raises, and changes
\* neither the session nor the server's folders.
C3_DisconnectedRaises ==
    [][(phase = "Disconnected" /\ last'.op \in DataOps) =>
          (last'.out = "raised" /\ m' = m /\ box' = box /\ nextId' = nextId)]_vars

\* add() has raised on a facade whose session was logged out by disconnect()
C3_Witness ==
    /\ phase = "Disconnected" /\ m.state = "LOGOUT"
    /\ last.op = "add" /\ last.out = "raised"

\* C4: once connect() has raised or disconnect() has ended, no session the
\* facade opened is left logged in: the one it holds is logged out (or was
\* never opened) and none was dropped while logged in.
C4_ReleasedOnEveryExit ==
    (last.op = "disconnect" \/ (last.op = "connect" /\ last.out = "raised"))
        => (m.state \in {"UNDEFINED", "LOGOUT"} /\ ~leaked)

C6_SizeMismatchRaises ==
    (last.op \in {"fetch", "items"} /\ last.firstBad # 0)
        => (last.out = "raised" /\ last.n < last.firstBad)

\* a fetch of two messages has raised at the second pair, whose byte count
\* was wrong
C6_Witness ==
    /\ last.op = "fetch" /\ last.out = "raised"
    /\ Len(last.set) = 2 /\ last.firstBad = 2 /\ last.n = 1

\* C7: a call of keys, search, fetch, add, copy, discard, remove, select or
\* list_folders during which the server answered a command with a status
\* other than OK raises.
C7_NonOKRaises ==
    (last.op \in (DataOps \cup {"select"}) \ {"iter", "items"} /\ last.nonOK)
        => last.out = "raised"

\* C8: when a fetch over a message set raises, the caller has received none
\* of the set's messages.
C8_FetchAllOrNothing ==
    (last.op = "fetch" /\ last.out = "raised") => last.n = 0

\* C9: while the facade is Connected its session has a folder selected, and
\* current_folder is that folder.
C9_CurrentFolderSelected ==
    phase = "Connected" => (m.state = "SELECTED" /\ m.sel = folder)

\* C10: when connect() has returned with every server command answered OK,
\* the facade is Connected and the folder given at construction is the one
\* selected.
C10_ConnectSelectsGivenFolder ==
    (last.op = "connect" /\ last.out = "ok" /\ ~last.nonOK)
        => (phase = "Connected" /\ m.state = "SELECTED" /\ m.sel = DefaultFolder)

\* C11: an iteration that has ended, with no command refused by the session
\* or by a server that could have carried it out, ended normally and yielded the messages
\* of the identifiers its search returned, one each, in their order.
C11_IterationComplete ==
    (it.st = "done" /\ ~it.fault)
        => (it.out = "ok" /\ it.got = it.ids)

\* C12: when items() has been consumed on a session with a folder selected,
\* the server having declined nothing and every byte count being right, it
\* ended normally and the caller received one pair per identifier of keys().
C12_ItemsComplete ==
    (last.op = "items" /\ m.state = "SELECTED" /\ ~last.nonOK /\ last.firstBad = 0)
        => (last.out = "ok" /\ last.n = Len(KeysNow))

\* C13: when add(m, F) has returned with the server answering OK, F holds
\* its former messages and one more, whose text as fetched is the serialized
\* m byte for byte; no other folder has changed, nor the selected folder,
\* nor current_folder.
C13_AddByteIdentical ==
    [][(last'.op = "add" /\ last'.out = "ok" /\ ~last'.nonOK) =>
          LET b == last'.arg[1]
              F == last'.arg[2]
          IN /\ Len(box'[F]) = Len(box[F]) + 1
             /\ SubSeq(box'[F], 1, Len(box[F])) = box[F]
             /\ Body(box'[F][Len(box'[F])]) = b
             /\ \A f \in Folders \ {F} : box'[f] = box[f]
             /\ m' = m /\ folder' = folder]_vars

\* C14: on a session with a folder selected, for one identifier that keys()
\* does not return, remove raises KeyError and discard returns normally, and
\* neither changes the folders.
C14_NonexistentKey ==
    [][(/\ last'.op \in {"remove", "discard"}
        /\ m.state = "SELECTED"
        /\ Len(last'.set) = 1
        /\ last'.set[1] \notin Range(KeysNow)) =>
          /\ box' = box
          /\ last'.op = "remove" => Exc(last') = "KeyError"
          /\ last'.op = "discard" => last'.out = "ok"]_vars

C18_RemoveOnlyNamed ==
    [][(last'.op = "remove" /\ last'.out = "ok") =>
          \A i \in 1..Len(SelBox) :
              i \notin Range(last'.set) =>
                  \E j \in 1..Len(box'[m.sel]) : box'[m.sel][j].id = SelBox[i].id]_vars

\* C19: when remove(u) of one identifier has returned with every command
\* answered OK, in a folder where no other message was flagged, every other
\* identifier v still designates the message it designated before, and u
\* designates none.
C19_IdentifiersStable ==
    [][(/\ last'.op = "remove" /\ last'.out = "ok" /\ ~last'.nonOK
        /\ Len(last'.set) = 1
        /\ \A i \in 1..Len(SelBox) : ~SelBox[i].del) =>
          LET u == last'.set[1]
              after == box'[m.sel]
          IN /\ u \notin 1..Len(after)
             /\ \A v \in 1..Len(SelBox) :
                   v # u => (v \in 1..Len(after) /\ after[v].id = SelBox[v].id)]_vars

\* C16: on every reference date LASTWEEK, LASTMONTH and LASTYEAR each expand
\* to one range in parentheses, (SINCE start BEFORE end) with both dates
\* written DD-Mon-YYYY: for LASTWEEK end is the Monday of the week today is
\* in and start the Monday 7 days before it; for LASTMONTH end is the 1st of
\* today's month and start the 1st of the month of the day before end; for
\* LASTYEAR end is 1 January of today's year and start 1 January of the
\* year before.
C16_RangeMacros ==
    (macro.done /\ Len(macro.query) = 1 /\ macro.query[1] \in RangeMacros) =>
        LET t == macro.today
            w == macro.query[1]
            monday == CHOOSE k \in (toordinal(t) - 6)..toordinal(t) : k % 7 = 1
            first == date(t.y, t.mo, 1)
            before == fromordinal(toordinal(first) - 1)
            end == IF w = "LASTWEEK" THEN fromordinal(monday)
                   ELSE IF w = "LASTMONTH" THEN first
                   ELSE date(t.y, 1, 1)
            start == IF w = "LASTWEEK" THEN fromordinal(monday - 7)
                     ELSE IF w = "LASTMONTH" THEN date(before.y, before.mo, 1)
                     ELSE date(t.y - 1, 1, 1)
            x == macro.expanded
        IN /\ Len(x) = 38
           /\ x = Chars("(SINCE ") \o FormatDate(start) \o Chars(" BEFORE ")
                      \o FormatDate(end) \o Chars(")")
           /\ SubSeq(x, 10, 10) = Chars("-") /\ SubSeq(x, 14, 14) = Chars("-")
           /\ toordinal(start) < toordinal(end) /\ toordinal(end) <= toordinal(t)

\* LASTMONTH has been expanded on 15 January 2024, to December 2023
C16_Witness ==
    /\ macro.done
    /\ macro.query = <<"LASTMONTH">>
    /\ macro.today = date(2024, 1, 15)
    /\ macro.expanded =
          <<"(", "S", "I", "N", "C", "E", " ", "0", "1", "-", "D", "e", "c", "-", "2", "0", "2", "3", " ", "B", "E", "F", "O", "R", "E", " ", "0", "1", "-", "J", "a", "n", "-", "2", "0", "2", "4", ")">>

\* C17: the expansion of a query is the expansion of the query in which
\* every alias word is replaced by its target: PASTHALFYEAR by PAST180DAYS,
\* PASTYEAR by PAST365DAYS, PAST2YEARS by PAST730DAYS.
C17_AliasEquivalence ==
    macro.done =>
        LET q == macro.query
            retargeted ==
                [i \in 1..Len(q) |->
                    CASE q[i] = "PASTHALFYEAR" -> "PAST180DAYS"
                      [] q[i] = "PASTYEAR" -> "PAST365DAYS"
                      [] q[i] = "PAST2YEARS" -> "PAST730DAYS"
                      [] OTHER -> q[i]]
        IN macro.expanded = expand_search_macros(Join(retargeted), macro.today)

\* NOT PASTYEAR has been expanded on 1 July 2024, to the date 365 days before
C17_Witness ==
    /\ macro.done
    /\ macro.query = <<"NOT", "PASTYEAR">>
    /\ macro.today = date(2024, 7, 1)
    /\ macro.expanded =
          <<"N", "O", "T", " ", "S", "I", "N", "C", "E", " ", "0", "2", "-", "J", "u", "l", "-", "2", "0", "2", "3">>

====
